---- MODULE Spec2Model ----
(***************************************************************************)
(* Model of tiprocessing/IRUtils.py and of the batch driver                *)
(* tiprocessing/AnalyzeIRData.py (thermal-image-processing).               *)
(*                                                                         *)
(* Python strings are sequences of one-character strings, Python lists are *)
(* sequences, a file is the sequence of its text lines (line terminators   *)
(* are not part of a line).  A raised exception is the record              *)
(* [exc |-> name]; floating-point rounding is not modelled: a statistic is *)
(* the exact rational <<numerator, denominator>>.                          *)
(***************************************************************************)
EXTENDS Integers, Sequences, FiniteSets, TLC

VARIABLES
    pc,         \* position of the running script or caller
    files,      \* the file system: csvpath -> sequence of text lines
    positions,  \* the calibration dictionary handed to the zone functions
    df_ir,      \* the batch driver's accumulated records (df_ir)
    out,        \* the tables written to IR_zones.csv, in order
    arg,        \* the arguments of the call under study
    ret         \* the value returned by the last call, or the exception raised

vars == <<pc, files, positions, df_ir, out, arg, ret>>

(***************************************************************************)
(* Python built-ins                                                        *)
(***************************************************************************)

Min(a, b) == IF a <= b THEN a ELSE b

Max(a, b) == IF a >= b THEN a ELSE b

\* The index a slice bound denotes in a sequence of length n: a negative bound
\* counts from the end, and the result is clipped to 0..n.
SliceIndex(i, n) == IF i < 0 THEN Max(i + n, 0) ELSE Min(i, n)

\* s[a:b] of a Python sequence (0-based, end exclusive, never raises).
PySlice(s, a, b) ==
    SubSeq(s, SliceIndex(a, Len(s)) + 1, SliceIndex(b, Len(s)))

\* list(reversed(s))
Reversed(s) == [i \in 1..Len(s) |-> s[Len(s) + 1 - i]]

(***************************************************************************)
(* getFileInfo                                                             *)
(***************************************************************************)

\* getFileInfo with the time read one character too far to the left.
getFileInfoShifted(filename) ==
    [date       |-> PySlice(filename, 10, 18),
     time       |-> PySlice(filename, -13, -5),
     folder     |-> PySlice(filename, 19, 27),
     filenumber |-> PySlice(filename, 28, 31)]

\* The four fixed-offset slices of a file name; a slice never raises.
getFileInfo(filename) ==
    [date       |-> PySlice(filename, 10, 18),
     time       |-> PySlice(filename, -12, -4),
     folder     |-> PySlice(filename, 19, 27),
     filenumber |-> PySlice(filename, 28, 31)]

(***************************************************************************)
(* File names                                                              *)
(***************************************************************************)

Dates == { <<"2","0","1","7","0","8","1","5">>,
           <<"2","0","1","7","0","8","1","6">>,
           <<"2","0","1","7","0","9","0","1">> }

Folders == { <<"P","0","0","0","0","0","0","4">>,
             <<"P","0","0","0","0","0","1","2">> }

Numbers == { <<"0","0","5">>, <<"0","1","7">> }

Times == { <<"1","0","-","5","0","-","0","8">>,
           <<"2","3","-","5","9","-","4","1">> }

\* ir_export_<date>_<folder>_<seq>_<time>.csv
TemplateName(date, folder, number, time) ==
    <<"i","r","_","e","x","p","o","r","t","_">> \o date \o <<"_">> \o folder
        \o <<"_">> \o number \o <<"_">> \o time \o <<".","c","s","v">>

TemplateNames ==
    { TemplateName(d, f, n, t) : d \in Dates, f \in Folders, n \in Numbers, t \in Times }

\* Names that do not follow the template: every prefix of a template name, and
\* template names with characters added at either end.
OtherNames ==
    { SubSeq(t, 1, n) : t \in TemplateNames, n \in 0..43 }
        \cup { <<"x">> \o t : t \in TemplateNames }
        \cup { t \o <<".","b","a","k">> : t \in TemplateNames }

(***************************************************************************)
(* Caller of getFileInfo                                                   *)
(***************************************************************************)

InitFileInfo ==
    /\ pc = "call"
    /\ arg \in { [filename |-> f] : f \in TemplateNames \cup OtherNames }
    /\ ret = <<>>
    /\ files = <<>>
    /\ positions = <<>>
    /\ df_ir = <<>>
    /\ out = <<>>

CallGetFileInfo ==
    /\ pc = "call"
    /\ pc' = "returned"
    /\ ret' = getFileInfo(arg.filename)
    /\ UNCHANGED <<files, positions, df_ir, out, arg>>

NextFileInfo == CallGetFileInfo

SpecFileInfo == InitFileInfo /\ [][NextFileInfo]_vars

\* x is a contiguous piece of s (possibly empty).
IsSubstring(x, s) ==
    \E i \in 1..(Len(s) + 1) : \E j \in (i - 1)..Len(s) : x = SubSeq(s, i, j)

\* C5: for a file name built after the template the call returns exactly the
\* date, time, folder and sequence number it was built from, and for every
\* input string it returns four substrings of the name (no exception).
C5_FileInfoFields ==
    pc = "returned" =>
        /\ \A d \in Dates, f \in Folders, n \in Numbers, t \in Times :
              arg.filename = TemplateName(d, f, n, t) =>
                  ret = [date |-> d, time |-> t, folder |-> f, filenumber |-> n]
        /\ DOMAIN ret = {"date", "time", "folder", "filenumber"}
        /\ \A k \in DOMAIN ret : IsSubstring(ret[k], arg.filename)

\* The documented example ir_export_20170815_P0000004_005_10-50-08.csv has
\* been decoded.
C5_Witness ==
    /\ pc = "returned"
    /\ arg.filename = TemplateName(<<"2","0","1","7","0","8","1","5">>,
                                   <<"P","0","0","0","0","0","0","4">>,
                                   <<"0","0","5">>,
                                   <<"1","0","-","5","0","-","0","8">>)
    /\ ret.time = <<"1","0","-","5","0","-","0","8">>
    /\ ret.filenumber = <<"0","0","5">>

(***************************************************************************)
(* numpy: arrays, slices and statistics                                    *)
(***************************************************************************)

RECURSIVE GCD(_, _)
GCD(a, b) == IF b = 0 THEN a ELSE GCD(b, a % b)

Abs(x) == IF x < 0 THEN -x ELSE x

\* The rational n/d (d > 0) in lowest terms; nan is <<0, 0>>.
Frac(n, d) == LET g == GCD(Abs(n), d) IN <<n \div g, d \div g>>

NaN == <<0, 0>>

\* A missing cell of a data frame (numpy.nan among the numbers of an image).
\* Numbers read from a file are written with digits only, so none is negative.
NaNCell == -1

HasNaN(v) == \E i \in 1..Len(v) : v[i] = NaNCell

RECURSIVE SumSeq(_)
SumSeq(s) == IF s = <<>> THEN 0 ELSE Head(s) + SumSeq(Tail(s))

RECURSIVE Flatten(_)
Flatten(rows) == IF rows = <<>> THEN <<>> ELSE Head(rows) \o Flatten(Tail(rows))

RECURSIVE Insert(_, _)
Insert(x, s) ==
    IF s = <<>> THEN <<x>>
    ELSE IF x <= Head(s) THEN <<x>> \o s
    ELSE <<Head(s)>> \o Insert(x, Tail(s))

RECURSIVE Sorted(_)
Sorted(s) == IF s = <<>> THEN <<>> ELSE Insert(Head(s), Sorted(Tail(s)))

\* np.median of the flattened values: the middle of the sorted values, or the
\* mean of the two middle ones; nan for no values or when a value is nan.
NpMedian(v) ==
    LET n == Len(v)
        s == Sorted(v)
    IN  IF n = 0 \/ HasNaN(v) THEN NaN
        ELSE IF n % 2 = 1 THEN Frac(s[(n + 1) \div 2], 1)
        ELSE Frac(s[n \div 2] + s[n \div 2 + 1], 2)

\* np.mean: sum / n; nan for no values.
NpMean(v) == IF Len(v) = 0 \/ HasNaN(v) THEN NaN ELSE Frac(SumSeq(v), Len(v))

\* The sample standard deviation (ddof = 1): denominator n - 1.
NpStdSample(v) ==
    LET n == Len(v)
        S == SumSeq(v)
    IN  IF n <= 1 \/ HasNaN(v) THEN NaN
        ELSE Frac(SumSeq([i \in 1..n |-> (n * v[i] - S) * (n * v[i] - S)]),
                  n * n * (n - 1))

\* np.std (ddof = 0): sqrt(mean(abs(x - x.mean())**2)).  The value kept is the
\* rational under the square root, sum((n*x - S)^2) / n^3 with S = sum(x).
NpStd(v) ==
    LET n == Len(v)
        S == SumSeq(v)
    IN  IF n = 0 \/ HasNaN(v) THEN NaN
        ELSE Frac(SumSeq([i \in 1..n |-> (n * v[i] - S) * (n * v[i] - S)]), n * n * n)

\* np.array(image)[r0:r1, c0:c1] for a rectangular list of rows with at least
\* one row: slices of the rows, then of each row.
Roi(image, r0, r1, c0, c1) ==
    LET rows == PySlice(image, r0, r1)
    IN  [i \in 1..Len(rows) |-> PySlice(rows[i], c0, c1)]

(***************************************************************************)
(* getIRDataFromZone                                                       *)
(***************************************************************************)

\* positions[zone_name + suffix][iod] for the four suffixes.
Edges(pos, zone_name, iod) ==
    << pos[zone_name \o "_row_start"][iod + 1],
       pos[zone_name \o "_row_end"][iod + 1],
       pos[zone_name \o "_col_start"][iod + 1],
       pos[zone_name \o "_col_end"][iod + 1] >>

\* getIRDataFromZone(image, positions, zone_name, iod): (median, mean, std), or
\* the IndexError numpy raises when a one-dimensional array (np.array([]), the
\* array of an image with no rows) is indexed with two slices.
getIRDataFromZone(image, pos, zone_name, iod) ==
    LET edges == Edges(pos, zone_name, iod)
    IN  IF image = <<>> THEN [exc |-> "IndexError"]
        ELSE LET roi == Flatten(Roi(image, edges[1], edges[2], edges[3], edges[4]))
             IN  [median |-> NpMedian(roi), mean |-> NpMean(roi), std |-> NpStd(roi)]

(***************************************************************************)
(* Caller of getIRDataFromZone                                             *)
(***************************************************************************)

MaxRows == 2
MaxCols == 2

PixelValues == {5, 8}

\* Rectangular images with r rows of c numbers; a data frame may have rows and
\* no column left, and no row at all.
Images ==
    {<<>>} \cup UNION { [1..r -> [1..c -> PixelValues]] : r \in 1..MaxRows, c \in 0..MaxCols }

NumRows(image) == Len(image)

NumCols(image) == IF image = <<>> THEN 0 ELSE Len(image[1])

\* The dictionary columns of one zone: boxes[i] = <<row_start, row_end,
\* col_start, col_end>> of calibration row i.
ZoneColumns(zone_name, boxes) ==
    (zone_name \o "_row_start" :> [i \in 1..Len(boxes) |-> boxes[i][1]])
        @@ (zone_name \o "_row_end" :> [i \in 1..Len(boxes) |-> boxes[i][2]])
        @@ (zone_name \o "_col_start" :> [i \in 1..Len(boxes) |-> boxes[i][3]])
        @@ (zone_name \o "_col_end" :> [i \in 1..Len(boxes) |-> boxes[i][4]])

\* Start and end bounds with start <= end; a start may be negative.
BoundPairs(n) == { <<a, b>> \in (-1..n) \X (-1..n) : a <= b }

ZoneBoxes ==
    { <<r[1], r[2], c[1], c[2]>> : r \in BoundPairs(MaxRows), c \in BoundPairs(MaxCols) }

\* The other calibration row of the table: an empty zone.
DecoyBox == <<0, 0, 0, 0>>

InitZone ==
    /\ pc = "call"
    /\ \E image \in Images, box \in ZoneBoxes, iod \in {0, 1} :
          /\ arg = [image |-> image, zone_name |-> "zone1", iod |-> iod]
          /\ positions =
                ("measurement" :> << <<"2","0","1","7","0","8","1","5">>,
                                     <<"2","0","1","7","0","8","1","6">> >>)
                    @@ ZoneColumns("zone1", IF iod = 0 THEN <<box, DecoyBox>>
                                                       ELSE <<DecoyBox, box>>)
    /\ ret = <<>>
    /\ files = <<>>
    /\ df_ir = <<>>
    /\ out = <<>>

CallGetIRDataFromZone ==
    /\ pc = "call"
    /\ pc' = "returned"
    /\ ret' = getIRDataFromZone(arg.image, positions, arg.zone_name, arg.iod)
    /\ UNCHANGED <<files, positions, df_ir, out, arg>>

NextZone == CallGetIRDataFromZone

SpecZone == InitZone /\ [][NextZone]_vars

(***************************************************************************)
(* Statistics of a set of cells, stated without sorting or slicing         *)
(***************************************************************************)

\* The cells (0-based row, column) of the image inside [r0, r1) x [c0, c1).
CellsIn(image, r0, r1, c0, c1) ==
    { c \in (0..(NumRows(image) - 1)) \X (0..(NumCols(image) - 1)) :
        /\ r0 <= c[1] /\ c[1] < r1
        /\ c0 <= c[2] /\ c[2] < c1 }

CellValue(image, c) == image[c[1] + 1][c[2] + 1]

RECURSIVE SumOver(_, _, _)
SumOver(image, cells, power) ==
    IF cells = {} THEN 0
    ELSE LET c == CHOOSE x \in cells : TRUE
             v == CellValue(image, c)
         IN  (IF power = 2 THEN v * v ELSE v) + SumOver(image, cells \ {c}, power)

\* The k-th smallest value among the cells (k in 1..N).
KthSmallest(image, cells, k) ==
    CHOOSE v \in { CellValue(image, c) : c \in cells } :
        /\ Cardinality({ c \in cells : CellValue(image, c) < v }) < k
        /\ k <= Cardinality({ c \in cells : CellValue(image, c) <= v })

\* Median, mean and population variance (denominator N) of the cells; nan for
\* no cell.  The standard deviation is the square root of the variance.
CellStats(image, cells) ==
    LET n == Cardinality(cells)
        S == SumOver(image, cells, 1)
        Q == SumOver(image, cells, 2)
    IN  IF n = 0 THEN [median |-> NaN, mean |-> NaN, std |-> NaN]
        ELSE [median |-> IF n % 2 = 1
                         THEN Frac(KthSmallest(image, cells, (n + 1) \div 2), 1)
                         ELSE Frac(KthSmallest(image, cells, n \div 2)
                                     + KthSmallest(image, cells, n \div 2 + 1), 2),
              mean   |-> Frac(S, n),
              std    |-> Frac(n * Q - S * S, n * n)]

ArgEdges == Edges(positions, arg.zone_name, arg.iod)

ArgCells == CellsIn(arg.image, ArgEdges[1], ArgEdges[2], ArgEdges[3], ArgEdges[4])

\* row_start <= row_end <= grid_rows and col_start <= col_end <= grid_cols
BoundsInGrid ==
    /\ ArgEdges[1] <= ArgEdges[2] /\ ArgEdges[2] <= NumRows(arg.image)
    /\ ArgEdges[3] <= ArgEdges[4] /\ ArgEdges[4] <= NumCols(arg.image)

ConstantFive ==
    (ArgCells # {} /\ \A c \in ArgCells : CellValue(arg.image, c) = 5)
        => ret = [median |-> <<5, 1>>, mean |-> <<5, 1>>, std |-> <<0, 1>>]

\* C1 as stated: whenever row_start <= row_end <= grid_rows and col_start <=
\* col_end <= grid_cols, the call returns the median, mean and population
\* standard deviation of exactly the cells with row index in [row_start,
\* row_end) and column index in [col_start, col_end), with the bounds of
\* calibration row iod; a constant grid of 5 gives (5, 5, 0).
C1_AsStated ==
    (pc = "returned" /\ BoundsInGrid) =>
        /\ ret = CellStats(arg.image, ArgCells)
        /\ ConstantFive

\* C1 (amended): the same, for bounds that also satisfy 0 <= row_start and
\* 0 <= col_start, on a grid with at least one row.
C1_ZoneStatistics ==
    (/\ pc = "returned"
     /\ BoundsInGrid
     /\ 0 <= ArgEdges[1] /\ 0 <= ArgEdges[3]
     /\ NumRows(arg.image) >= 1) =>
        /\ ret = CellStats(arg.image, ArgCells)
        /\ ConstantFive

\* A 2 x 2 zone of mixed values taken from calibration row 1 has been
\* summarised: median 13/2, mean 13/2, variance 9/4.
C1_Witness ==
    /\ pc = "returned"
    /\ arg.iod = 1
    /\ arg.image = << <<5, 8>>, <<8, 5>> >>
    /\ ArgEdges = <<0, 2, 0, 2>>
    /\ ret = [median |-> <<13, 2>>, mean |-> <<13, 2>>, std |-> <<9, 4>>]

(***************************************************************************)
(* The csv module, delimiter ";"                                           *)
(***************************************************************************)

\* The cells of one text line split at every ";".
RECURSIVE SplitLine(_)
SplitLine(line) ==
    IF \A i \in 1..Len(line) : line[i] # ";" THEN <<line>>
    ELSE LET k == CHOOSE i \in 1..Len(line) :
                      line[i] = ";" /\ \A j \in 1..(i - 1) : line[j] # ";"
         IN  <<SubSeq(line, 1, k - 1)>> \o SplitLine(SubSeq(line, k + 1, Len(line)))

\* csv.reader on one line: a blank line is the row [], the line "" (two quote
\* characters) is the row [''], any other line is split at the delimiter.
ReadRow(line) ==
    IF line = <<>> THEN <<>>
    ELSE IF line = <<"\"", "\"">> THEN << <<>> >>
    ELSE SplitLine(line)

\* [row for row in csv.reader(csvfile, delimiter=";")]
ReadCsv(lines) == [i \in 1..Len(lines) |-> ReadRow(lines[i])]

RECURSIVE JoinCells(_)
JoinCells(row) ==
    IF row = <<>> THEN <<>>
    ELSE IF Len(row) = 1 THEN row[1]
    ELSE row[1] \o <<";">> \o JoinCells(Tail(row))

\* csv.writer.writerow for cells that need no quoting: the cells joined by the
\* delimiter; a row holding one empty cell is written as two quote characters.
WriteRow(row) ==
    IF row = << <<>> >> THEN <<"\"", "\"">> ELSE JoinCells(row)

WriteCsv(rows) == [i \in 1..Len(rows) |-> WriteRow(rows[i])]

(***************************************************************************)
(* rotateCSVFile180                                                        *)
(***************************************************************************)

\* A rotation that takes every row at its own length.
Rotated180OwnLength(csvcontent) ==
    [ok |-> TRUE,
     rows |-> Reversed([i \in 1..Len(csvcontent) |-> Reversed(csvcontent[i])])]

\* A rotation that reverses the order of the rows only.
Rotated180RowsOnly(csvcontent) ==
    IF csvcontent = <<>> THEN [ok |-> TRUE, rows |-> <<>>]
    ELSE IF \E i \in 1..Len(csvcontent) : Len(csvcontent[i]) < Len(csvcontent[1])
    THEN [ok |-> FALSE, rows |-> <<>>]
    ELSE [ok |-> TRUE,
          rows |-> Reversed([i \in 1..Len(csvcontent) |->
                                SubSeq(csvcontent[i], 1, Len(csvcontent[1]))])]

\* csvcontent_new: [[csvcontent[i][j] for j in reversed(range(len(csvcontent[0])))]
\*                  for i in reversed(range(len(csvcontent)))].
\* Every row is indexed over the length of the FIRST row: csvcontent[i][j]
\* raises IndexError in a shorter row, and the cells of a longer row beyond
\* that length are left out.  With no row, csvcontent[0] is never evaluated.
Rotated180(csvcontent) ==
    IF csvcontent = <<>> THEN [ok |-> TRUE, rows |-> <<>>]
    ELSE IF \E i \in 1..Len(csvcontent) : Len(csvcontent[i]) < Len(csvcontent[1])
    THEN [ok |-> FALSE, rows |-> <<>>]
    ELSE [ok |-> TRUE,
          rows |-> Reversed([i \in 1..Len(csvcontent) |->
                                Reversed(SubSeq(csvcontent[i], 1, Len(csvcontent[1])))])]

(***************************************************************************)
(* Caller of rotateCSVFile180                                              *)
(***************************************************************************)

MaxLineLen == 3
MaxLines == 2

LineChars == {"5", ";"}

TextLines == UNION { [1..n -> LineChars] : n \in 0..MaxLineLen }

TextFiles == UNION { [1..n -> TextLines] : n \in 0..MaxLines }

RotatePath == "ir_export.csv"

InitRotate ==
    /\ pc = "call"
    /\ \E content \in TextFiles :
          /\ files = (RotatePath :> content)
          /\ arg = [csvpath |-> RotatePath, before |-> content, calls |-> 0]
    /\ ret = <<>>
    /\ positions = <<>>
    /\ df_ir = <<>>
    /\ out = <<>>

\* rotateCSVFile180(csvpath), up to two calls in a row on the same file.  The
\* file is reopened for writing only after the rotated rows were built.
CallRotateCSVFile180 ==
    /\ pc = "call"
    /\ arg.calls < 2
    /\ LET r == Rotated180(ReadCsv(files[arg.csvpath]))
       IN  IF r.ok
           THEN /\ files' = [files EXCEPT ![arg.csvpath] = WriteCsv(r.rows)]
                /\ ret' = [value |-> "None"]
                /\ pc' = "call"
           ELSE /\ files' = files
                /\ ret' = [exc |-> "IndexError"]
                /\ pc' = "raised"
    /\ arg' = [arg EXCEPT !.calls = @ + 1]
    /\ UNCHANGED <<positions, df_ir, out>>

NextRotate == CallRotateCSVFile180

SpecRotate == InitRotate /\ [][NextRotate]_vars

RowsBefore == ReadCsv(arg.before)

RowsNow == ReadCsv(files[arg.csvpath])

\* Every row has as many cells as the first one.
Rectangular(rows) == \A i \in 1..Len(rows) : Len(rows[i]) = Len(rows[1])

\* rows2 is rows1 with the order of the rows and of the cells in each row
\* reversed, every cell kept.
IsRotationOf(rows2, rows1) ==
    /\ Len(rows2) = Len(rows1)
    /\ \A i \in 1..Len(rows1) :
          /\ Len(rows2[i]) = Len(rows1[Len(rows1) + 1 - i])
          /\ \A j \in 1..Len(rows2[i]) :
                rows2[i][j] = rows1[Len(rows1) + 1 - i][Len(rows2[i]) + 1 - j]

\* C4: on a grid file (rows of equal length) one call leaves the rows in
\* reverse order with the cells of each row in reverse order, and a second call
\* leaves the rows and cells of the original file.
C4_RotateTwice ==
    Rectangular(RowsBefore) =>
        /\ pc # "raised"
        /\ arg.calls = 1 => IsRotationOf(RowsNow, RowsBefore)
        /\ arg.calls = 2 => RowsNow = RowsBefore

\* A two-row grid with different cells has been rotated twice.
C4_Witness ==
    /\ arg.calls = 2
    /\ pc = "call"
    /\ RowsBefore = << << <<"5", "5">>, <<>> >>, << <<>>, <<"5">> >> >>
    /\ RowsNow = RowsBefore

\* C9 as stated: on a file whose rows have unequal lengths the rotation
\* completes and the rewritten file holds every cell of every row.
C9_AsStated ==
    (arg.calls = 1 /\ ~Rectangular(RowsBefore)) =>
        /\ pc # "raised"
        /\ IsRotationOf(RowsNow, RowsBefore)

\* C9 (amended): on a file whose rows have unequal lengths, the rotation
\* raises an index error and leaves the file as it was when some row is
\* shorter than the first row; otherwise it completes and rewrites every row
\* cut to the length of the first row (the further cells of longer rows are
\* lost), rows and kept cells in reverse order.
C9_RaggedRotation ==
    (arg.calls = 1 /\ ~Rectangular(RowsBefore)) =>
        LET w == Len(RowsBefore[1])
            n == Len(RowsBefore)
        IN  IF \E i \in 1..n : Len(RowsBefore[i]) < w
            THEN /\ pc = "raised"
                 /\ ret = [exc |-> "IndexError"]
                 /\ files[arg.csvpath] = arg.before
            ELSE /\ pc = "call"
                 /\ Len(RowsNow) = n
                 /\ \A i \in 1..n :
                       /\ Len(RowsNow[i]) = w
                       /\ \A j \in 1..w : RowsNow[i][j] = RowsBefore[n + 1 - i][w + 1 - j]
                 /\ \E i \in 1..n : Len(RowsNow[i]) < Len(RowsBefore[n + 1 - i])

\* A rotation has raised on a file whose second row is shorter than the first.
C9_Witness ==
    /\ arg.calls = 1
    /\ pc = "raised"
    /\ RowsBefore = << << <<"5">>, <<"5">> >>, << <<"5">> >> >>
    /\ files[arg.csvpath] = arg.before

(***************************************************************************)
(* Numbers in text                                                         *)
(***************************************************************************)

DigitChars == <<"0", "1", "2", "3", "4", "5", "6", "7", "8", "9">>

IsDigit(ch) == \E i \in 1..10 : DigitChars[i] = ch

DigitValue(ch) == (CHOOSE i \in 1..10 : DigitChars[i] = ch) - 1

\* The number written by a non-empty run of digits.
RECURSIVE ParseDigits(_)
ParseDigits(t) ==
    IF Len(t) = 1 THEN DigitValue(t[1])
    ELSE 10 * ParseDigits(SubSeq(t, 1, Len(t) - 1)) + DigitValue(t[Len(t)])

\* The decimal digits of n >= 0.
RECURSIVE DecimalOf(_)
DecimalOf(n) ==
    IF n < 10 THEN <<DigitChars[n + 1]>>
    ELSE DecimalOf(n \div 10) \o <<DigitChars[(n % 10) + 1]>>

\* int(v) accepts an optional sign followed by digits.
IsIntText(t) ==
    LET body == IF t # <<>> /\ t[1] \in {"-", "+"} THEN Tail(t) ELSE t
    IN  body # <<>> /\ \A i \in 1..Len(body) : IsDigit(body[i])

PyInt(t) ==
    IF t[1] = "-" THEN 0 - ParseDigits(Tail(t))
    ELSE IF t[1] = "+" THEN ParseDigits(Tail(t))
    ELSE ParseDigits(t)

(***************************************************************************)
(* pandas: read_csv, dropna, values.tolist                                 *)
(***************************************************************************)

\* A cell of a data row as read_csv holds it: an empty field is missing (nan),
\* a run of digits is its number.
FrameCell(row, j) ==
    IF j > Len(row) \/ row[j] = <<>> THEN NaNCell ELSE ParseDigits(row[j])

NonBlank(line) == line # <<>>

\* pd.read_csv(csvpath, delimiter=";") with every other option at its default:
\* blank lines are skipped, the first remaining line is taken as the HEADER
\* (header=0: it names the columns and is no data row), every further line is
\* one data row.  A file without any line raises EmptyDataError.  The frame is
\* the sequence of its data rows; ncols is the number of header fields (the
\* model's files have no line wider than their first line).
ReadCsvFrame(lines) ==
    LET text == SelectSeq(lines, NonBlank)
    IN  IF text = <<>> THEN [exc |-> "EmptyDataError"]
        ELSE LET ncols == Len(SplitLine(text[1]))
                 data  == Tail(text)
             IN  [ncols |-> ncols,
                  rows  |-> [i \in 1..Len(data) |->
                               [j \in 1..ncols |-> FrameCell(SplitLine(data[i]), j)]]]

RECURSIVE KeptColumns(_, _)
KeptColumns(df, j) ==
    IF j > df.ncols THEN <<>>
    ELSE (IF \E i \in 1..Len(df.rows) : df.rows[i][j] # NaNCell THEN <<j>> ELSE <<>>)
             \o KeptColumns(df, j + 1)

\* A dropna that drops nothing.
DropNaNothing(df) == df

\* df.dropna(axis=1, how='all'): the columns in which every data row is
\* missing are dropped (every column, when there is no data row).
DropNaAllColumns(df) ==
    LET keep == KeptColumns(df, 1)
    IN  [ncols |-> Len(keep),
         rows  |-> [i \in 1..Len(df.rows) |->
                      [k \in 1..Len(keep) |-> df.rows[i][keep[k]]]]]

\* df.values.tolist()
ValuesToList(df) == df.rows

(***************************************************************************)
(* getPositionInformation                                                  *)
(***************************************************************************)

\* The value stored for field v of column c.
PositionValue(c, v) == IF c = "measurement" THEN v ELSE PyInt(v)

\* numberOfZones = (len(pos_info.keys()) - 1) // 4: an int.
ZoneCount(nkeys) == (nkeys - 1) \div 4

\* getPositionInformation(position_path) on a calibration file given by its
\* header (column names) and its rows of fields, as csv.DictReader yields
\* them; the header names measurement first.  A missing file ends the program
\* (sys.exit), a field of a zone column that is no integer raises ValueError,
\* a row with fields missing or in excess raises TypeError (int(None), int of a
\* list).  Without any data row the dictionary stays empty.
getPositionInformation(cal) ==
    IF ~cal.exists THEN [exc |-> "SystemExit"]
    ELSE IF \E r \in 1..Len(cal.rows) : Len(cal.rows[r]) # Len(cal.header)
    THEN [exc |-> "TypeError"]
    ELSE IF \E r \in 1..Len(cal.rows) : \E k \in 1..Len(cal.header) :
                cal.header[k] # "measurement" /\ ~IsIntText(cal.rows[r][k])
    THEN [exc |-> "ValueError"]
    ELSE LET keys == IF cal.rows = <<>> THEN {}
                     ELSE { cal.header[k] : k \in 1..Len(cal.header) }
             col(c) == CHOOSE k \in 1..Len(cal.header) : cal.header[k] = c
         IN  [pos_info |-> [c \in keys |->
                              [r \in 1..Len(cal.rows) |->
                                  PositionValue(c, cal.rows[r][col(c)])]],
              numberOfZones |-> ZoneCount(Cardinality(keys))]

(***************************************************************************)
(* getIRDataFromMultipleZones                                              *)
(***************************************************************************)

\* os.path.basename of a normalised path.
Basename(path) ==
    IF \A i \in 1..Len(path) : path[i] # "/" THEN path
    ELSE LET k == CHOOSE i \in 1..Len(path) :
                      path[i] = "/" /\ \A j \in (i + 1)..Len(path) : path[j] # "/"
         IN  SubSeq(path, k + 1, Len(path))

\* str(x) of a value that is a str already.
PyStr(x) == x

\* A rebinding that keeps only the distinct dates seen so far.
RECURSIVE StrListDistinct(_)
StrListDistinct(list) ==
    IF list = <<>> THEN <<>>
    ELSE LET front == StrListDistinct(SubSeq(list, 1, Len(list) - 1))
             x == list[Len(list)]
         IN  IF \E i \in 1..Len(front) : front[i] = x THEN front
             ELSE Append(front, PyStr(x))

\* [str(x) for x in list]
StrList(list) == [i \in 1..Len(list) |-> PyStr(list[i])]

\* The 0-based index of the last entry equal to x, -1 when there is none.
ListIndexLast(list, x) ==
    IF \A i \in 1..Len(list) : list[i] # x THEN -1
    ELSE (CHOOSE i \in 1..Len(list) :
              list[i] = x /\ \A j \in (i + 1)..Len(list) : list[j] # x) - 1

\* list.index(x): the entries are compared from the front and the 0-based
\* index of the first equal one is returned; -1 stands for the ValueError
\* raised when no entry is equal.
RECURSIVE ListIndexFrom(_, _, _)
ListIndexFrom(list, x, i) ==
    IF i > Len(list) THEN -1
    ELSE IF list[i] = x THEN i - 1
    ELSE ListIndexFrom(list, x, i + 1)

ListIndex(list, x) == ListIndexFrom(list, x, 1)

\* The loop over zone_list: one getIRDataFromZone call per zone, its three
\* values stored under ir_<zone>_med, _mean, _std; the first exception ends
\* the loop.  A zone without columns in the dictionary raises KeyError.
RECURSIVE ZoneLoop(_, _, _, _, _)
ZoneLoop(image, pos, zones, iod, irdata_dict) ==
    IF zones = <<>> THEN [row |-> irdata_dict]
    ELSE LET zone == Head(zones)
         IN  IF \E sfx \in {"_row_start", "_row_end", "_col_start", "_col_end"} :
                    (zone \o sfx) \notin DOMAIN pos
             THEN [exc |-> "KeyError"]
             ELSE LET ir_data == getIRDataFromZone(image, pos, zone, iod)
                  IN  IF "exc" \in DOMAIN ir_data THEN ir_data
                      ELSE ZoneLoop(image, pos, Tail(zones), iod,
                                    (("ir_" \o zone \o "_med") :> ir_data.median)
                                        @@ (("ir_" \o zone \o "_mean") :> ir_data.mean)
                                        @@ (("ir_" \o zone \o "_std") :> ir_data.std)
                                        @@ irdata_dict)

\* getIRDataFromMultipleZones(csvpath, positions, zone_list) with the file
\* system fs.  zone_list is [kind |-> "list", items |-> names] or
\* [kind |-> "int", value |-> n]; iterating over an int raises TypeError.  The
\* result gives the dictionary as the call leaves it, whether read_csv was
\* reached, and the returned one-row data frame (a sequence of one row) or
\* the exception raised.
getIRDataFromMultipleZones(csvpath, pos, zone_list, fs) ==
    IF "measurement" \notin DOMAIN pos
    THEN [positions |-> pos, loaded |-> FALSE, exc |-> "KeyError"]
    ELSE
    LET filename == Basename(csvpath)
        info == getFileInfo(filename)
        pos2 == [pos EXCEPT !["measurement"] = StrList(pos["measurement"])]
        indexOfDataset == ListIndex(pos2["measurement"], info.date)
        df0 == ReadCsvFrame(fs[csvpath])
    IN  IF indexOfDataset < 0
        THEN [positions |-> pos2, loaded |-> FALSE, exc |-> "ValueError"]
        ELSE IF "exc" \in DOMAIN df0
        THEN [positions |-> pos2, loaded |-> TRUE, exc |-> df0.exc]
        ELSE IF zone_list.kind = "int"
        THEN [positions |-> pos2, loaded |-> TRUE, exc |-> "TypeError"]
        ELSE LET df == DropNaAllColumns(df0)
                 irdata_dict == [ir_date |-> info.date, ir_time |-> info.time,
                                 ir_folder |-> info.folder,
                                 ir_filenumber |-> info.filenumber]
                 r == ZoneLoop(ValuesToList(df), pos2, zone_list.items,
                               indexOfDataset, irdata_dict)
             IN  IF "exc" \in DOMAIN r
                 THEN [positions |-> pos2, loaded |-> TRUE, exc |-> r.exc]
                 ELSE IF zone_list.items = <<>>
                 THEN [positions |-> pos2, loaded |-> TRUE, exc |-> "ValueError"]
                 ELSE [positions |-> pos2, loaded |-> TRUE, frame |-> <<r.row>>]

(***************************************************************************)
(* Frame export files and calibration files                                *)
(***************************************************************************)

\* The text of a frame export: one line per grid row, the numbers of the row
\* separated by ";", with or without a ";" closing every line (an empty
\* trailing column).
ExportFrame(grid, trailing) ==
    [i \in 1..Len(grid) |->
        JoinCells([j \in 1..Len(grid[i]) |-> DecimalOf(grid[i][j])])
            \o (IF trailing THEN <<";">> ELSE <<>>)]

\* The grid a frame export without trailing column holds: grid row i is text
\* line i, top-left origin.
TextGrid(lines) ==
    [i \in 1..Len(lines) |->
        [j \in 1..Len(SplitLine(lines[i])) |-> ParseDigits(SplitLine(lines[i])[j])]]

RECURSIVE ZoneHeader(_, _)
ZoneHeader(z, nzones) ==
    IF z > nzones THEN <<>>
    ELSE << "zone" \o ToString(z) \o "_row_start", "zone" \o ToString(z) \o "_row_end",
            "zone" \o ToString(z) \o "_col_start", "zone" \o ToString(z) \o "_col_end" >>
             \o ZoneHeader(z + 1, nzones)

RECURSIVE BoxFields(_)
BoxFields(boxes) ==
    IF boxes = <<>> THEN <<>>
    ELSE << DecimalOf(boxes[1][1]), DecimalOf(boxes[1][2]),
            DecimalOf(boxes[1][3]), DecimalOf(boxes[1][4]) >> \o BoxFields(Tail(boxes))

\* positions.csv with the columns measurement, zone1_row_start, ...: one row
\* per date, rowboxes[r][z] the bounds of zone z on date r.
CalibrationFile(dates, rowboxes, nzones) ==
    [exists |-> TRUE,
     header |-> <<"measurement">> \o ZoneHeader(1, nzones),
     rows   |-> [r \in 1..Len(dates) |-> <<dates[r]>> \o BoxFields(rowboxes[r])]]

Date1 == <<"2","0","1","7","0","8","1","5">>
Date2 == <<"2","0","1","7","0","8","1","6">>
Date3 == <<"2","0","1","7","0","9","0","1">>

FrameName(date, number) ==
    TemplateName(date, <<"P","0","0","0","0","0","0","4">>, number,
                 <<"1","0","-","5","0","-","0","8">>)

(***************************************************************************)
(* Caller of getIRDataFromMultipleZones on one frame, exported twice       *)
(***************************************************************************)

\* The same frame with an empty trailing column (PathA) and without (PathB).
PathA == <<"A", "/">> \o FrameName(Date1, <<"0","0","5">>)
PathB == <<"B", "/">> \o FrameName(Date1, <<"0","0","5">>)

FrameGrids ==
    UNION { [1..r -> [1..c -> PixelValues]] : r \in 1..MaxRows, c \in 1..MaxCols }

\* Bounds 0 <= start < end <= n.
NonEmptyPairs(n) == { <<a, b>> \in (0..n) \X (0..n) : a < b }

\* Zones of at least one row and one column; the column range may run past
\* the last numeric column.
FrameBoxes ==
    { <<r[1], r[2], c[1], c[2]>> :
        r \in NonEmptyPairs(MaxRows), c \in NonEmptyPairs(MaxCols + 1) }

InitFrame ==
    /\ pc = "call"
    /\ \E grid \in FrameGrids, box \in FrameBoxes :
          /\ files = (PathA :> ExportFrame(grid, TRUE)) @@ (PathB :> ExportFrame(grid, FALSE))
          /\ positions =
                getPositionInformation(CalibrationFile(<<Date1>>, << <<box>> >>, 1)).pos_info
    /\ arg = [zone_list |-> [kind |-> "list", items |-> <<"zone1">>]]
    /\ ret = <<>>
    /\ df_ir = <<>>
    /\ out = <<>>

\* getIRDataFromMultipleZones(csvpath, positions, ["zone1"]) on a file not
\* analysed yet; ret keeps the outcome per path.
CallOnFrame ==
    /\ pc = "call"
    /\ \E csvpath \in DOMAIN files \ DOMAIN ret :
          \E r \in {getIRDataFromMultipleZones(csvpath, positions, arg.zone_list, files)} :
              /\ positions' = r.positions
              /\ ret' = (csvpath :> [k \in DOMAIN r \ {"positions"} |-> r[k]]) @@ ret
    /\ UNCHANGED <<pc, files, df_ir, out, arg>>

NextFrame == CallOnFrame

SpecFrame == InitFrame /\ [][NextFrame]_vars

FrameEdges == Edges(positions, "zone1", 0)

\* The statistics of zone1 in an outcome, when a record was returned.
ZoneTriple(outcome, zone) ==
    [median |-> outcome.frame[1]["ir_" \o zone \o "_med"],
     mean   |-> outcome.frame[1]["ir_" \o zone \o "_mean"],
     std    |-> outcome.frame[1]["ir_" \o zone \o "_std"]]

\* C2 as stated: for a frame file that is a plain numeric grid, one grid row
\* per text line, the statistics of a zone lying inside the grid are those of
\* rows row_start..row_end-1 and columns col_start..col_end-1 of the grid whose
\* row 0 is the first text line of the file.
C2_AsStated ==
    (/\ PathB \in DOMAIN ret
     /\ FrameEdges[2] <= Len(files[PathB])
     /\ FrameEdges[4] <= NumCols(TextGrid(files[PathB]))) =>
        /\ "frame" \in DOMAIN ret[PathB]
        /\ ZoneTriple(ret[PathB], "zone1") =
              CellStats(TextGrid(files[PathB]),
                        CellsIn(TextGrid(files[PathB]), FrameEdges[1], FrameEdges[2],
                                FrameEdges[3], FrameEdges[4]))

\* C8: the outcome (the record with its per-zone statistics, or the exception)
\* for the frame file with an all-empty trailing column equals the outcome for
\* the file holding the same grid without that column.
C8_TrailingColumn ==
    (PathA \in DOMAIN ret /\ PathB \in DOMAIN ret) => ret[PathA] = ret[PathB]

\* Both files of a frame were analysed with a zone whose column range runs
\* past the last numeric column, and numbers came out.
C8_Witness ==
    /\ PathA \in DOMAIN ret /\ PathB \in DOMAIN ret
    /\ files[PathA] = << <<"5",";","5",";">>, <<"8",";","5",";">> >>
    /\ FrameEdges = <<0, 1, 0, 3>>
    /\ "frame" \in DOMAIN ret[PathA]
    /\ ZoneTriple(ret[PathA], "zone1") =
          [median |-> <<13, 2>>, mean |-> <<13, 2>>, std |-> <<9, 4>>]

(***************************************************************************)
(* Calibration tables and frame files of a measurement campaign            *)
(***************************************************************************)

MaxDates == 2
MaxZones == 2

SessionBoxes == { <<0, 1, 0, 1>>, <<0, 2, 0, 2>>, <<1, 2, 0, 1>> }

\* The bounds of the zones after zone1, the same on every date.
OtherZoneBox == <<0, 1, 1, 2>>

\* The rows of a calibration file: a date (dates may repeat) and the bounds
\* of zone1 per row.
CalibrationRows ==
    UNION { [1..n -> {Date1, Date2} \X SessionBoxes] : n \in 0..MaxDates }

CalibrationFiles ==
    { CalibrationFile([r \in 1..Len(rows) |-> rows[r][1]],
                      [r \in 1..Len(rows) |->
                          [z \in 1..nz |-> IF z = 1 THEN rows[r][2] ELSE OtherZoneBox]],
                      nz) :
        rows \in CalibrationRows, nz \in 1..MaxZones }

\* A calibration file with a zone bound that is no integer, and a path at
\* which there is no file.
BrokenCalibrationFile ==
    [exists |-> TRUE,
     header |-> <<"measurement">> \o ZoneHeader(1, 1),
     rows   |-> << <<Date1, <<"0">>, <<"1">>, <<"x">>, <<"1">> >> >>]

MissingCalibrationFile == [exists |-> FALSE, header |-> <<>>, rows |-> <<>>]

InputFolder == <<"I", "R", "/">>

\* Frame files of the input folder: one per date, the third date being in no
\* calibration file, and two files without any line.
Frame1 == InputFolder \o FrameName(Date1, <<"0","0","5">>)
Frame2 == InputFolder \o FrameName(Date2, <<"0","0","5">>)
Frame3 == InputFolder \o FrameName(Date3, <<"0","0","5">>)
EmptyFrame1 == InputFolder \o FrameName(Date1, <<"0","1","7">>)
EmptyFrame3 == InputFolder \o FrameName(Date3, <<"0","1","7">>)

FrameText == << <<"5",";","5">>, <<"5",";","8">>, <<"8",";","8">> >>

FrameFiles ==
    (Frame1 :> FrameText) @@ (Frame2 :> FrameText) @@ (Frame3 :> FrameText)
        @@ (EmptyFrame1 :> <<>>) @@ (EmptyFrame3 :> <<>>)

RECURSIVE ZoneNames(_, _)
ZoneNames(z, nzones) ==
    IF z > nzones THEN <<>> ELSE <<"zone" \o ToString(z)>> \o ZoneNames(z + 1, nzones)

(***************************************************************************)
(* A caller that builds the table once and then calls the zone functions   *)
(***************************************************************************)

MaxCalls == 2

InitSession ==
    /\ pc = "start"
    /\ \E cal \in CalibrationFiles :
          arg = [cal |-> cal, built |-> <<>>, numberOfZones |-> 0, calls |-> 0,
                 last |-> <<>>]
    /\ files = FrameFiles
    /\ positions = <<>>
    /\ ret = <<>>
    /\ df_ir = <<>>
    /\ out = <<>>

\* positions, numberOfZones = getPositionInformation("positions.csv")
BuildPositions ==
    /\ pc = "start"
    /\ \E r \in {getPositionInformation(arg.cal)} :
          /\ positions' = r.pos_info
          /\ arg' = [arg EXCEPT !.built = r.pos_info,
                                !.numberOfZones = r.numberOfZones]
          /\ ret' = r
    /\ pc' = "ready"
    /\ UNCHANGED <<files, df_ir, out>>

\* The zone lists a caller passes: every zone of the calibration file, zone1
\* alone, or a zone the file does not define.
SessionZoneLists ==
    { ZoneNames(1, arg.numberOfZones), <<"zone1">>, <<"zone9">> }

\* getIRDataFromMultipleZones(csvpath, positions, zone_list) on any frame file.
CallMultipleZones ==
    /\ pc = "ready"
    /\ arg.calls < MaxCalls
    /\ \E csvpath \in DOMAIN files, items \in SessionZoneLists :
          \E r \in {getIRDataFromMultipleZones(csvpath, positions,
                                               [kind |-> "list", items |-> items], files)} :
              /\ positions' = r.positions
              /\ arg' = [arg EXCEPT !.calls = @ + 1,
                                    !.last = [op |-> "getIRDataFromMultipleZones",
                                              csvpath |-> csvpath, zone_list |-> items]]
              /\ ret' = [k \in DOMAIN r \ {"positions"} |-> r[k]]
    /\ UNCHANGED <<pc, files, df_ir, out>>

SessionImage == << <<5, 8>>, <<8, 8>> >>

\* getIRDataFromZone(image, positions, "zone1", iod) called directly, for a
\* row iod of the table.
CallZone ==
    /\ pc = "ready"
    /\ arg.calls < MaxCalls
    /\ "measurement" \in DOMAIN positions
    /\ \E iod \in 0..(Len(positions["measurement"]) - 1) :
          \E r \in {getIRDataFromZone(SessionImage, positions, "zone1", iod)} :
              /\ arg' = [arg EXCEPT !.calls = @ + 1,
                                    !.last = [op |-> "getIRDataFromZone", iod |-> iod]]
              /\ ret' = r
    /\ UNCHANGED <<pc, files, positions, df_ir, out>>

NextSession == BuildPositions \/ CallMultipleZones \/ CallZone

SpecSession == InitSession /\ [][NextSession]_vars

LastWasMultipleZones ==
    /\ pc = "ready"
    /\ arg.calls > 0
    /\ arg.last.op = "getIRDataFromMultipleZones"

\* The date decoded from the name of the file of the last call.
LastDate == getFileInfo(Basename(arg.last.csvpath)).date

\* The 1-based positions of the measurement list that equal the date.
Matches(date) ==
    { i \in 1..Len(positions["measurement"]) : positions["measurement"][i] = date }

Least(S) == CHOOSE i \in S : \A j \in S : i <= j

\* C6: when the date of the file name equals no entry of the measurement
\* list, the call raises the lookup failure (ValueError of list.index) without
\* having reached read_csv and returns no record; when entries equal the date,
\* every zone of a returned record holds the statistics taken with the bounds
\* of the first matching entry.
C6_DateLookup ==
    (LastWasMultipleZones /\ "measurement" \in DOMAIN positions) =>
        IF Matches(LastDate) = {}
        THEN /\ "exc" \in DOMAIN ret /\ ret.exc = "ValueError"
             /\ ~ret.loaded
             /\ "frame" \notin DOMAIN ret
        ELSE /\ ret.loaded
             /\ "frame" \in DOMAIN ret =>
                   \A k \in 1..Len(arg.last.zone_list) :
                       ZoneTriple(ret, arg.last.zone_list[k]) =
                           getIRDataFromZone(
                               ValuesToList(DropNaAllColumns(
                                   ReadCsvFrame(files[arg.last.csvpath]))),
                               positions, arg.last.zone_list[k],
                               Least(Matches(LastDate)) - 1)

\* A file whose date is in no calibration row, and which holds no line that
\* read_csv could load, has been refused with the lookup failure.
C6_Witness ==
    /\ LastWasMultipleZones
    /\ arg.last.csvpath = EmptyFrame3
    /\ "measurement" \in DOMAIN positions
    /\ Len(positions["measurement"]) = 2
    /\ ret.exc = "ValueError"
    /\ ~ret.loaded

\* C10: after any sequence of calls, returning or raising, the dictionary
\* built by getPositionInformation has the keys and, under every key, the list
\* of values it was built with.
C10_TableUnchanged ==
    pc = "ready" =>
        /\ DOMAIN positions = DOMAIN arg.built
        /\ \A k \in DOMAIN positions : positions[k] = arg.built[k]

\* Two calls were made on a table with a repeated date, the last one raising.
C10_Witness ==
    /\ pc = "ready"
    /\ arg.calls = 2
    /\ "exc" \in DOMAIN ret
    /\ arg.last.op = "getIRDataFromMultipleZones"
    /\ "measurement" \in DOMAIN arg.built
    /\ arg.built["measurement"] = <<Date1, Date1>>
    /\ positions = arg.built

(***************************************************************************)
(* The batch driver (AnalyzeIRData.py, analyze_ir_data.py)                 *)
(***************************************************************************)

MaxFiles == 2

\* The orders in which glob.glob may enumerate the files of a folder.
Enumerations(S) ==
    { e \in [1..Cardinality(S) -> S] : \A i, j \in 1..Cardinality(S) : e[i] = e[j] => i = j }

InitDriver ==
    /\ pc = "start"
    /\ \E cal \in CalibrationFiles \cup {BrokenCalibrationFile, MissingCalibrationFile} :
          \E S \in SUBSET (DOMAIN FrameFiles) :
              /\ Cardinality(S) <= MaxFiles
              /\ files = [p \in S |-> FrameFiles[p]]
              /\ \E e \in Enumerations(S) :
                    arg = [cal |-> cal, glob |-> e, i |-> 0, numberOfZones |-> 0]
    /\ positions = <<>>
    /\ ret = <<>>
    /\ df_ir = <<>>
    /\ out = <<>>

\* positions, numberOfZones = getPositionInformation("positions.csv"): the
\* script ends when the file is missing (sys.exit) or a field does not parse.
LoadPositions ==
    /\ pc = "start"
    /\ \E r \in {getPositionInformation(arg.cal)} :
          IF "exc" \in DOMAIN r
          THEN /\ pc' = IF r.exc = "SystemExit" THEN "exited" ELSE "crashed_loading"
               /\ ret' = r
               /\ UNCHANGED <<positions, arg>>
          ELSE /\ pc' = "loop"
               /\ positions' = r.pos_info
               /\ arg' = [arg EXCEPT !.numberOfZones = r.numberOfZones]
               /\ ret' = <<>>
    /\ UNCHANGED <<files, df_ir, out>>

\* A driver that skips a file whose analysis raised and goes on.
AfterExceptionSkip == [pc |-> "loop", step |-> 1]

\* The loop has no try/except: an exception raised for a file ends the script
\* at that file.
AfterException == [pc |-> "crashed", step |-> 0]

\* One turn of the loop over the enumerated files:
\* ir_data = getIRDataFromMultipleZones(csvfile, positions, numberOfZones);
\* df_ir = df_ir.append(ir_data, ignore_index=True).  The third argument is
\* the int returned by getPositionInformation.
ProcessFile ==
    /\ pc = "loop"
    /\ arg.i < Len(arg.glob)
    /\ \E r \in {getIRDataFromMultipleZones(arg.glob[arg.i + 1], positions,
                     [kind |-> "int", value |-> arg.numberOfZones], files)} :
          /\ positions' = r.positions
          /\ IF "exc" \in DOMAIN r
             THEN /\ pc' = AfterException.pc
                  /\ arg' = [arg EXCEPT !.i = @ + AfterException.step]
                  /\ ret' = [exc |-> r.exc]
                  /\ df_ir' = df_ir
             ELSE /\ pc' = "loop"
                  /\ arg' = [arg EXCEPT !.i = @ + 1]
                  /\ ret' = <<>>
                  /\ df_ir' = df_ir \o r.frame
    /\ UNCHANGED <<files, out>>

\* df_ir.to_csv(inputFolder + "IR_zones.csv", sep=";") after the loop.
WriteOutput ==
    /\ pc = "loop"
    /\ arg.i = Len(arg.glob)
    /\ out' = Append(out, df_ir)
    /\ pc' = "done"
    /\ UNCHANGED <<files, positions, df_ir, arg, ret>>

NextDriver == LoadPositions \/ ProcessFile \/ WriteOutput

SpecDriver == InitDriver /\ [][NextDriver]_vars

FileDate(p) == getFileInfo(Basename(p)).date

\* N >= 1 frame files, each holding a grid, that map one-to-one to the N
\* distinct dates of the calibration table.
OneToOne ==
    /\ "measurement" \in DOMAIN positions
    /\ Len(arg.glob) >= 1
    /\ Len(arg.glob) = Len(positions["measurement"])
    /\ \A i, j \in 1..Len(arg.glob) :
          positions["measurement"][i] = positions["measurement"][j] => i = j
    /\ \A i \in 1..Len(arg.glob) :
          /\ files[arg.glob[i]] # <<>>
          /\ \E j \in 1..Len(arg.glob) : positions["measurement"][j] = FileDate(arg.glob[i])

ZoneKeys(n) ==
    UNION { { "ir_zone" \o ToString(z) \o "_med", "ir_zone" \o ToString(z) \o "_mean",
              "ir_zone" \o ToString(z) \o "_std" } : z \in 1..n }

\* C3 as stated: a run over N files that map one-to-one to N distinct
\* calibration dates ends with an output of exactly N records, in enumeration
\* order, record i tagged with the date of file i and holding a statistic
\* triple for every zone of the calibration file.
C3_AsStated ==
    (pc \in {"done", "crashed"} /\ OneToOne) =>
        /\ pc = "done"
        /\ Len(out) = 1
        /\ Len(out[1]) = Len(arg.glob)
        /\ \A i \in 1..Len(arg.glob) :
              /\ out[1][i]["ir_date"] = FileDate(arg.glob[i])
              /\ ZoneKeys(arg.numberOfZones) \subseteq DOMAIN out[1][i]

\* C7: the output is written once, by a run that reaches its end, and only when the loop has gone
\* through every enumerated file without an exception; when the analysis of a
\* file raises, the run has stopped at that file (nothing further is enabled),
\* with no record of it or of a later file, and no output is written.
C7_OutputOnlyAfterAll ==
    /\ Len(out) <= 1
    /\ pc = "done" => Len(out) = 1
    /\ Len(out) = 1 =>
          /\ pc = "done"
          /\ arg.i = Len(arg.glob)
          /\ Len(df_ir) = Len(arg.glob)
          /\ out[1] = df_ir
    /\ pc = "crashed" =>
          /\ out = <<>>
          /\ arg.i < Len(arg.glob)
          /\ Len(df_ir) = arg.i
          /\ ~ENABLED NextDriver

\* The run stopped at the first of two enumerated files, nothing written.
C7_Witness ==
    /\ pc = "crashed"
    /\ Len(arg.glob) = 2
    /\ arg.i = 0
    /\ ret = [exc |-> "TypeError"]
    /\ out = <<>>

(***************************************************************************)
(* processIRMovie: export, optional rotation, renaming                     *)
(***************************************************************************)

\* os.path.basename(os.path.normpath(path)) for a path without "." or "//":
\* normpath drops the trailing separator.
NormBasename(path) ==
    IF path # <<>> /\ path[Len(path)] = "/" THEN Basename(SubSeq(path, 1, Len(path) - 1))
    ELSE Basename(path)

StartsWith(s, x) == Len(x) <= Len(s) /\ SubSeq(s, 1, Len(x)) = x

EndsWith(s, x) == Len(x) <= Len(s) /\ SubSeq(s, Len(s) - Len(x) + 1, Len(s)) = x

\* prefix = "ir_export_" + measurement[:8] + "_" + foldername
MoviePrefix(measurement, inputfolder) ==
    <<"i","r","_","e","x","p","o","r","t","_">> \o PySlice(measurement, 0, 8)
        \o <<"_">> \o NormBasename(inputfolder)

\* filenumber = os.path.basename(os.path.normpath(ifile))[2:-7]
FileNumber(ifile) == PySlice(NormBasename(ifile), 2, -7)

\* exportpath + prefix + "_" + filenumber + "_0001.csv"
ExportedName(exportpath, prefix, ifile) ==
    exportpath \o prefix \o <<"_">> \o FileNumber(ifile)
        \o <<"_","0","0","0","1",".","c","s","v">>

\* exportpath + prefix + "_" + filenumber + "_" + time + ".csv"
RenamedName(exportpath, prefix, ifile, time) ==
    exportpath \o prefix \o <<"_">> \o FileNumber(ifile) \o <<"_">> \o time
        \o <<".","c","s","v">>

\* The names the module-level import "from datetime import datetime, timedelta"
\* makes reachable as attributes of the name datetime, which is the class
\* datetime.datetime: its constructors and methods, and no timedelta.
DatetimeAttributes == { "fromtimestamp", "now", "strftime", "strptime", "min", "max" }

TwoDigits(n) == IF n < 10 THEN <<"0">> \o DecimalOf(n) ELSE DecimalOf(n)

\* strftime('%H-%M-%S') of a time given in seconds.
StrfTime(t) ==
    TwoDigits((t \div 3600) % 24) \o <<"-">> \o TwoDigits((t \div 60) % 60)
        \o <<"-">> \o TwoDigits(t % 60)

\* datetime.fromtimestamp(timestamp) + datetime.timedelta(hours=timeshift),
\* then strftime: the attribute lookup datetime.timedelta is evaluated for
\* the right operand and raises when the class has no such attribute.
ShiftedTime(timestamp, timeshift) ==
    IF "timedelta" \in DatetimeAttributes
    THEN [time |-> StrfTime(timestamp + 3600 * timeshift)]
    ELSE [exc |-> "AttributeError"]

InputDir == <<"D", "/">>

ExportPath == <<"E", "/">>

Measurements ==
    { Date1 \o <<"_","M","/","P","0","0","0","0","0","0","4","/">>,
      Date2 \o <<"_","M","/","P","0","0","0","0","0","1","2","/">> }

\* .TMC files of an input folder and the other file found next to them.
TmcNames == { <<"I","R","0","0","5","_","0","1",".","T","M","C">>,
              <<"I","R","0","1","7","_","0","1",".","T","M","C">> }

\* Modification times, in seconds (10:50:08 and 23:59:41).
ModificationTimes == { 39008, 86381 }

Timeshifts == { 0, 2 }

\* Rotation is given as int or str (the str by the number it spells).
Rotations == { [type |-> t, value |-> v] : t \in {"int", "str"}, v \in {0, 180} }

\* rotation == 180: a str never equals an int.
EqualsInt(x, n) == x.type = "int" /\ x.value = n

\* Text of an exported frame.
ExportedTexts == { << <<"5",";","8">> >>, << <<"5",";","8">>, <<"8",";","8">> >> }

\* A file of another measurement already in the export folder.
StaleExport == ExportPath \o TemplateName(Date3, <<"P","0","0","0","0","0","0","4">>,
                                          <<"0","0","5">>, <<"1","0","-","5","0","-","0","8">>)

InitMovie ==
    /\ pc = "export"
    /\ \E m \in Measurements, rot \in Rotations, ts \in Timeshifts,
          doRot \in BOOLEAN, doRen \in BOOLEAN, S \in SUBSET TmcNames,
          text \in ExportedTexts :
          \E mt \in [S -> ModificationTimes] :
              arg = [measurement |-> m, rotation |-> rot, inputfolder |-> InputDir \o m,
                     exportpath |-> ExportPath, timeshift |-> ts,
                     doRotation |-> doRot, doRenaming |-> doRen,
                     tmc |-> mt, text |-> text,
                     oglob |-> <<>>, j |-> 0, tglob |-> <<>>, k |-> 0]
    /\ \E stale \in BOOLEAN :
          files = IF stale THEN [p \in {StaleExport} |-> << <<"8",";","5">> >>]
                  ELSE [p \in {} |-> <<>>]
    /\ positions = <<>>
    /\ df_ir = <<>>
    /\ out = <<>>
    /\ ret = <<>>

ArgPrefix == MoviePrefix(arg.measurement, arg.inputfolder)

\* glob.glob(inputfolder + "/*.TMC")
TmcPaths == { arg.inputfolder \o <<"/">> \o n : n \in DOMAIN arg.tmc }

\* The files glob.glob(exportpath + prefix + "*.csv") matches in fs.
PrefixMatches(fs) ==
    { p \in DOMAIN fs : /\ StartsWith(p, arg.exportpath \o ArgPrefix)
                        /\ EndsWith(p, <<".","c","s","v">>)
                        /\ Len(p) >= Len(arg.exportpath \o ArgPrefix) + 4 }

\* ThermoViewer(mode="folder", ..., frame_start=1, frame_end=1,
\* exportformat="csv"): one CSV of frame 1 per .TMC file of the folder, named
\* after the prefix, then the start of the rotation loop over the glob.
Export ==
    /\ pc = "export"
    /\ \E fs \in {[p \in DOMAIN files \cup
                        { ExportedName(arg.exportpath, ArgPrefix, i) : i \in TmcPaths } |->
                     IF p \in DOMAIN files THEN files[p] ELSE arg.text]} :
          /\ files' = fs
          /\ \E e \in (IF arg.doRotation THEN Enumerations(PrefixMatches(fs)) ELSE {<<>>}) :
                arg' = [arg EXCEPT !.oglob = e]
    /\ out' = Append(out, <<"export">>)
    /\ pc' = "rotate"
    /\ UNCHANGED <<positions, df_ir, ret>>

\* One turn of "for ofile in glob.glob(exportpath + prefix + '*.csv')":
\* rotateCSVFile180(ofile) if rotation == 180.
RotateFile ==
    /\ pc = "rotate"
    /\ arg.j < Len(arg.oglob)
    /\ \E ofile \in {arg.oglob[arg.j + 1]} :
          IF EqualsInt(arg.rotation, 180)
          THEN \E r \in {Rotated180(ReadCsv(files[ofile]))} :
                  IF r.ok
                  THEN /\ files' = [files EXCEPT ![ofile] = WriteCsv(r.rows)]
                       /\ out' = Append(out, <<"rotate", ofile>>)
                       /\ arg' = [arg EXCEPT !.j = @ + 1]
                       /\ UNCHANGED <<pc, ret>>
                  ELSE /\ pc' = "raised"
                       /\ ret' = [exc |-> "IndexError"]
                       /\ UNCHANGED <<files, out, arg>>
          ELSE /\ arg' = [arg EXCEPT !.j = @ + 1]
               /\ UNCHANGED <<pc, files, out, ret>>
    /\ UNCHANGED <<positions, df_ir>>

\* End of the rotation step; "if doRenaming:" and the glob of the .TMC files.
StartRenaming ==
    /\ pc = "rotate"
    /\ arg.j = Len(arg.oglob)
    /\ \E e \in (IF arg.doRenaming THEN Enumerations(TmcPaths) ELSE {<<>>}) :
          arg' = [arg EXCEPT !.tglob = e]
    /\ pc' = "rename"
    /\ UNCHANGED <<files, positions, df_ir, out, ret>>

\* One turn of "for ifile in glob.glob(inputfolder + '/*.TMC')".
RenameFile ==
    /\ pc = "rename"
    /\ arg.k < Len(arg.tglob)
    /\ \E ifile \in {arg.tglob[arg.k + 1]} :
       \E t \in {ShiftedTime(arg.tmc[NormBasename(ifile)], arg.timeshift)} :
          IF "exc" \in DOMAIN t
          THEN /\ pc' = "raised"
               /\ ret' = t
               /\ UNCHANGED <<files, out, arg>>
          ELSE \E ofile \in {ExportedName(arg.exportpath, ArgPrefix, ifile)},
                  ofile_new \in {RenamedName(arg.exportpath, ArgPrefix, ifile, t.time)} :
                  IF ofile \notin DOMAIN files
                  THEN /\ pc' = "raised"
                       /\ ret' = [exc |-> "FileNotFoundError"]
                       /\ UNCHANGED <<files, out, arg>>
                  ELSE /\ files' = [p \in (DOMAIN files \ {ofile}) \cup {ofile_new} |->
                                        IF p = ofile_new THEN files[ofile] ELSE files[p]]
                       /\ out' = Append(out, <<"rename", ofile, ofile_new>>)
                       /\ arg' = [arg EXCEPT !.k = @ + 1]
                       /\ UNCHANGED <<pc, ret>>
    /\ UNCHANGED <<positions, df_ir>>

\* The call returns None after the last step.
ReturnFromMovie ==
    /\ pc = "rename"
    /\ arg.k = Len(arg.tglob)
    /\ pc' = "done"
    /\ ret' = [value |-> "None"]
    /\ UNCHANGED <<files, positions, df_ir, out, arg>>

NextMovie == Export \/ RotateFile \/ StartRenaming \/ RenameFile \/ ReturnFromMovie

SpecMovie == InitMovie /\ [][NextMovie]_vars

\* Positions in the log of the call at which event e was recorded.
Occurrences(e) == { i \in 1..Len(out) : out[i] = e }

RenameEvents == { i \in 1..Len(out) : out[i][1] = "rename" }

\* C11 as stated: when the call has ended, the steps were taken in the order
\* export, rotation, renaming; with doRotation and rotation equal to 180 every
\* exported file matching the prefix was rotated exactly once, before any
\* renaming; and with doRenaming the call completed with the exported file of
\* every .TMC file renamed to carry the shifted modification time.
C11_AsStated ==
    pc \in {"done", "raised"} =>
        /\ out # <<>> /\ out[1] = <<"export">>
        /\ (arg.doRotation /\ EqualsInt(arg.rotation, 180)) =>
              \A i \in TmcPaths :
                  \E n \in Occurrences(<<"rotate", ExportedName(arg.exportpath, ArgPrefix, i)>>) :
                      /\ Occurrences(<<"rotate", ExportedName(arg.exportpath, ArgPrefix, i)>>) = {n}
                      /\ \A m \in RenameEvents : n < m
        /\ arg.doRenaming =>
              /\ pc = "done"
              /\ \A i \in TmcPaths :
                    /\ ExportedName(arg.exportpath, ArgPrefix, i) \notin DOMAIN files
                    /\ RenamedName(arg.exportpath, ArgPrefix, i,
                           StrfTime(arg.tmc[NormBasename(i)] + 3600 * arg.timeshift))
                           \in DOMAIN files

====
